---------------------------- MODULE Spec2Model ----------------------------
(***************************************************************************)
(* AWS image service: upload handler, analysis handler (SQS consumer),     *)
(* query handler and auth handler over their managed collaborators: the    *)
(* object store (S3), the images and analysis tables (DynamoDB), the       *)
(* processing queue (SQS, with its dead-letter policy), the model endpoint *)
(* (Bedrock) and the identity provider (Cognito).                          *)
(*                                                                         *)
(* HTTP handlers run to completion in one action (their awaits touch       *)
(* disjoint keys or only read); an invocation of the analysis handler is   *)
(* one action per awaited collaborator call, so that invocations for       *)
(* different jobs and HTTP requests interleave between its calls.          *)
(***************************************************************************)
EXTENDS Integers, Sequences, FiniteSets, TLC

\* ------------------------------------------------------------------ bounds
\* number of image identifiers uuidv4() can hand out in a behaviour
MaxImages == 1

\* number of collaborator calls that fail in a behaviour
MaxFaults == 2

\* length of the file contents a multipart body carries
MaxLen == 3

\* number of parts of a multipart body
MaxParts == 2

\* ------------------------------------------------------- program constants
MAX_FILE_SIZE == 10 * 1024 * 1024

ALLOWED_MIME_TYPES == {"image/jpeg", "image/png", "image/gif", "image/webp"}

MIME_TO_EXTENSION ==
  [m \in ALLOWED_MIME_TYPES |->
     CASE m = "image/jpeg" -> ".jpg"
       [] m = "image/png"  -> ".png"
       [] m = "image/gif"  -> ".gif"
       [] m = "image/webp" -> ".webp"]

\* deadLetterQueue.maxReceiveCount of the processing queue
maxReceiveCount == 3

\* ------------------------------------------------------------------ inputs
Ids == 1 .. MaxImages

\* the SQS records the analysis handler is invoked with: the job message of
\* an image, or (0) a record whose body is not a JSON job message
Malformed == 0

Records == Ids \cup {Malformed}

\* content types a request's file part declares: one allowed, one not
ContentTypes == {"image/png", "text/plain"}

\* sizes of the extracted content: at the ceiling and one byte above it
Sizes == {MAX_FILE_SIZE, MAX_FILE_SIZE + 1}

\* what parseMultipartFormData hands to the upload handler
NoFile == [found |-> FALSE, contentType |-> "", size |-> 0]

FormDatas ==
  {NoFile} \cup
  {[found |-> TRUE, contentType |-> c, size |-> s] : c \in ContentTypes, s \in Sizes}

\* what parseBedrockResponse extracts from the answers of the model endpoint
ModelResults ==
  {[description |-> "d1", keywords |-> <<"k1", "k2">>, detectedText |-> <<>>],
   [description |-> "d2", keywords |-> <<"k3">>, detectedText |-> <<"t1">>]}

\* the callers' pre-validated claims: the subject and its cognito:groups
Users == {"u1", "u2"}

Claims == {[sub |-> "u1", groups |-> {}], [sub |-> "u2", groups |-> {"admin"}]}

\* the routes requests are sent to; {imageId} is the path parameter
QueryRoutes ==
  {"GET /health", "GET /api/images", "GET /api/images/{imageId}/info",
   "GET /api/images/{imageId}", "DELETE /api/images/{imageId}",
   "GET /api/analysis", "GET /api/analysis/{imageId}"}

\* messages of the errors the collaborators raise
ErrDynamo == "DynamoError"

ErrS3 == "S3Error"

ErrBedrock == "BedrockError"

ErrSqs == "SqsError"

\* the names of the errors the identity provider raises; the last one stands
\* for every name the handlers do not know
CognitoErrors ==
  {"UsernameExistsException", "NotAuthorizedException", "UserNotFoundException",
   "CodeMismatchException", "ExpiredCodeException", "InvalidPasswordException",
   "InvalidParameterException", "AliasExistsException", "InternalErrorException"}

AuthRoutes ==
  {"POST /api/auth/signup", "POST /api/auth/signin", "POST /api/auth/refresh",
   "POST /api/auth/forgot-password", "POST /api/auth/confirm-forgot-password",
   "GET /api/auth/me", "DELETE /api/auth/me", "PATCH /api/auth/upgrade",
   "GET /api/auth/other"}

\* a request without claims (or without a subject) in its trusted context
NoClaims == [sub |-> "", groups |-> {}]

\* request bodies: none (or not JSON, or a required field missing), or the
\* fields naming the account the request is about; guest tells whether the
\* email is a '@guidepost.guest' address
NoBody == [user |-> "", guest |-> FALSE]

Bodies == {NoBody} \cup {[user |-> u, guest |-> g] : u \in Users, g \in BOOLEAN}

\* ------------------------------------------------------------------- state
VARIABLES
  objects,    \* S3 bucket: the set of object keys
  images,     \* images table: imageId -> item
  analysis,   \* analysis table: imageId -> item
  queue,      \* processing queue: imageId -> the job message and its state
  inv,        \* the analysis handler's invocation for the job of an image
  nextId,     \* the next identifier uuidv4() returns
  faults,     \* the number of collaborator calls that have failed so far
  accounts,   \* identity provider: subject -> the account's attributes
  resp,       \* the result of the last HTTP handler invocation
  mp,         \* a multipart request: the file, its encoding, the extraction
  rx,         \* an answer of the model endpoint and what is extracted from it
  uploader    \* imageId -> the subject in the trusted context of the upload
              \* request that created the image record, "" before it

vars == <<objects, images, analysis, queue, inv, nextId, faults, accounts, resp, mp, rx, uploader>>

NoItem == [status |-> "absent"]

NoMsg == [st |-> "none", rc |-> 0]

NoResult == [description |-> "", keywords |-> <<>>, detectedText |-> <<>>]

NoAccount == [email |-> "", names |-> "", password |-> ""]

IdleInv == [pc |-> "idle", err |-> "", trace |-> <<>>, result |-> NoResult]

\* resp: which handler answered which request, how the invocation's promise
\* settled, and the response: statusCode, the error text of the body, and
\* the identifiers whose data the body or the Location header discloses
\* fault is the error a collaborator call of the invocation raised, "" if none
NoResp ==
  [handler |-> "none", req |-> [route |-> ""], fault |-> "",
   outcome |-> "none", status |-> 0, error |-> "", data |-> {}]

\* `${imageId}${extension}`
StoredFilename(id, contentType) ==
  <<id, IF contentType \in DOMAIN MIME_TO_EXTENSION
        THEN MIME_TO_EXTENSION[contentType] ELSE ".jpg">>

\* `images/${storedFilename}`
S3Key(storedFilename) == <<"images">> \o storedFilename

Response(handler, req, statusCode, data) ==
  [handler |-> handler, req |-> req, fault |-> "", outcome |-> "resolved",
   status |-> statusCode, error |-> "", data |-> data]

errorResponse(handler, req, statusCode, message) ==
  [handler |-> handler, req |-> req, fault |-> "", outcome |-> "resolved",
   status |-> statusCode, error |-> message, data |-> {}]

\* the response of a catch block that turns the error fault into a status
caughtResponse(handler, req, fault, statusCode, message) ==
  [handler |-> handler, req |-> req, fault |-> fault, outcome |-> "resolved",
   status |-> statusCode, error |-> message, data |-> {}]

\* no request in extraction
NoMp ==
  [pc |-> "none", boundary |-> <<>>, filename |-> "", content |-> <<>>,
   body |-> <<>>, out |-> [found |-> FALSE, filename |-> "", contentType |-> "", content |-> <<>>]]

Empty ==
  /\ objects = {}
  /\ images = [i \in Ids |-> NoItem]
  /\ analysis = [i \in Ids |-> NoItem]
  /\ queue = [i \in Ids |-> NoMsg]
  /\ inv = [i \in Records |-> IdleInv]
  /\ nextId = 1
  /\ faults = 0
  /\ accounts = [u \in Users |-> NoAccount]
  /\ resp = NoResp
  /\ uploader = [i \in Ids |-> ""]

\* no answer in extraction
NoRx == [pc |-> "none"]

Init == Empty /\ mp = NoMp /\ rx = NoRx

\* a collaborator call succeeds (ok) or is one of the calls that fail
Call(ok) ==
  IF ok THEN faults' = faults
  ELSE faults < MaxFaults /\ faults' = faults + 1

\* ---------------------------------------------------------- upload handler
\* the validation of the extracted file: the error text of the 400, "" if
\* the file passes
\* the validation without its size ceiling
UploadRejection_noSizeCheck(formData) ==
  IF ~formData.found THEN "No file uploaded or invalid multipart data"
  ELSE IF formData.contentType \notin ALLOWED_MIME_TYPES THEN "Invalid file type"
  ELSE ""

UploadRejection(formData) ==
  IF ~formData.found THEN "No file uploaded or invalid multipart data"
  ELSE IF formData.contentType \notin ALLOWED_MIME_TYPES THEN "Invalid file type"
  ELSE IF formData.size > MAX_FILE_SIZE THEN "File too large"
  ELSE ""

imageMetadata(imageId, formData) ==
  [imageId |-> imageId,
   filename |-> StoredFilename(imageId, formData.contentType),
   mimetype |-> formData.contentType, size |-> formData.size,
   s3Key |-> S3Key(StoredFilename(imageId, formData.contentType)),
   status |-> "uploaded"]

\* the job message carrying the stored filename where the key belongs
sqsMessage_filenameAsKey(imageId, formData) ==
  [st |-> "visible", rc |-> 0, imageId |-> imageId,
   filename |-> StoredFilename(imageId, formData.contentType),
   s3Key |-> StoredFilename(imageId, formData.contentType),
   mimetype |-> formData.contentType]

sqsMessage(imageId, formData) ==
  [st |-> "visible", rc |-> 0, imageId |-> imageId,
   filename |-> StoredFilename(imageId, formData.contentType),
   s3Key |-> S3Key(StoredFilename(imageId, formData.contentType)),
   mimetype |-> formData.contentType]

\* the error the failing call of the upload handler raises
UploadFault(failAt) ==
  CASE failAt = "s3" -> ErrS3
    [] failAt = "db" -> ErrDynamo
    [] failAt = "sqs" -> ErrSqs

UploadReq(formData) == [route |-> "POST /api/upload", formData |-> formData]

\* POST /api/upload.  failAt names the collaborator call that throws: the
\* calls before it have taken effect, the catch block answers 500.  claims are
\* the caller's claims in the request context, which the handler never reads.
Upload(formData, failAt, claims) ==
  /\ resp = NoResp
  /\ IF UploadRejection(formData) # ""
     THEN /\ resp' = errorResponse("upload", UploadReq(formData), 400,
                                   UploadRejection(formData))
          /\ UNCHANGED <<objects, images, analysis, queue, inv, nextId, faults, accounts, mp, rx, uploader>>
     ELSE /\ nextId <= MaxImages
          /\ Call(failAt = "none")
          /\ nextId' = nextId + 1
          /\ objects' = IF failAt = "s3" THEN objects
                        ELSE objects \cup {imageMetadata(nextId, formData).s3Key}
          /\ images' = IF failAt \in {"s3", "db"} THEN images
                       ELSE [images EXCEPT
                               ![nextId] = imageMetadata(nextId, formData)]
          /\ queue' = IF failAt \in {"s3", "db", "sqs"} THEN queue
                      ELSE [queue EXCEPT ![nextId] = sqsMessage(nextId, formData)]
          /\ resp' = IF failAt # "none"
                     THEN caughtResponse("upload", UploadReq(formData),
                                         UploadFault(failAt), 500,
                                         "Failed to upload image")
                     ELSE Response("upload", UploadReq(formData), 201, {nextId})
          /\ uploader' = IF failAt \in {"s3", "db"} THEN uploader
                         ELSE [uploader EXCEPT ![nextId] = claims.sub]
          /\ UNCHANGED <<analysis, inv, accounts, mp, rx>>

UploadRequest ==
  \E formData \in FormDatas, failAt \in {"none", "s3", "db", "sqs"},
     claims \in Claims :
    Upload(formData, failAt, claims)

\* ----------------------------------------------------------- query handler
\* a promise that rejects: the handler returns the route function's promise
\* without awaiting it, so its try/catch never sees the rejection and the
\* invocation's own promise rejects with the collaborator's error
Rejected(handler, req, error) ==
  [handler |-> handler, req |-> req, fault |-> error, outcome |-> "rejected",
   status |-> 0, error |-> error, data |-> {}]

\* ScanCommand on the images table, mapped to the response list (the order
\* of the list, newest first, is not modelled)
listImages(req, ok) ==
  IF ~ok THEN Rejected("query", req, ErrDynamo)
  ELSE Response("query", req, 200, {i \in Ids : images[i] # NoItem})

getImage(req, ok) ==
  IF ~ok THEN Rejected("query", req, ErrDynamo)
  ELSE IF images[req.imageId] = NoItem
  THEN errorResponse("query", req, 404, "Image not found")
  ELSE Response("query", req, 302, {req.imageId})

getImageInfo(req, ok) ==
  IF ~ok THEN Rejected("query", req, ErrDynamo)
  ELSE IF images[req.imageId] = NoItem
  THEN errorResponse("query", req, 404, "Image not found")
  ELSE Response("query", req, 200, {req.imageId})

listAnalysis(req, ok) ==
  IF ~ok THEN Rejected("query", req, ErrDynamo)
  ELSE Response("query", req, 200, {i \in Ids : analysis[i] # NoItem})

getAnalysis(req, ok) ==
  IF ~ok THEN Rejected("query", req, ErrDynamo)
  ELSE IF analysis[req.imageId] = NoItem
  THEN errorResponse("query", req, 404, "Analysis not found")
  ELSE Response("query", req, 200, {req.imageId})

\* the handler's route dispatch: string and regex matches on path and method
queryHandler(req, ok) ==
  CASE req.route = "GET /health" -> Response("query", req, 200, {})
    [] req.route = "GET /api/images" -> listImages(req, ok)
    [] req.route = "GET /api/images/{imageId}/info" -> getImageInfo(req, ok)
    [] req.route = "GET /api/images/{imageId}" -> getImage(req, ok)
    [] req.route = "GET /api/analysis" -> listAnalysis(req, ok)
    [] req.route = "GET /api/analysis/{imageId}" -> getAnalysis(req, ok)
    [] OTHER -> errorResponse("query", req, 404, "Route not found")

\* the routes that make a collaborator call
QueryCalls(route) == route \notin {"GET /health", "DELETE /api/images/{imageId}"}

QueryRequest ==
  \E route \in QueryRoutes, claims \in Claims, imageId \in Ids, ok \in BOOLEAN :
    /\ resp = NoResp
    /\ ok \/ QueryCalls(route)
    /\ resp' = queryHandler([route |-> route, claims |-> claims,
                             imageId |-> imageId], ok)
    /\ UNCHANGED <<objects, images, analysis, queue, inv, nextId, faults, accounts, mp, rx, uploader>>

\* ------------------------------------------------------------ auth handler
\* the catch block without its arm for the user that is not found
authCatch_noNotFound(req, name) ==
  CASE name = "UsernameExistsException" ->
         caughtResponse("auth", req, name, 409,
                        "An account with this email already exists")
    [] name = "NotAuthorizedException" ->
         caughtResponse("auth", req, name, 401, "Invalid email or password")
    [] name = "CodeMismatchException" ->
         caughtResponse("auth", req, name, 400, "Invalid confirmation code")
    [] name = "ExpiredCodeException" ->
         caughtResponse("auth", req, name, 400, "Confirmation code has expired")
    [] name = "InvalidPasswordException" ->
         caughtResponse("auth", req, name, 400,
                        "Password does not meet requirements")
    [] name = "InvalidParameterException" ->
         caughtResponse("auth", req, name, 400, name)
    [] OTHER ->
         caughtResponse("auth", req, name, 500, "Authentication failed")

\* the handler's catch block: the status and error text for an error by name
authCatch(req, name) ==
  CASE name = "UsernameExistsException" ->
         caughtResponse("auth", req, name, 409,
                        "An account with this email already exists")
    [] name = "NotAuthorizedException" ->
         caughtResponse("auth", req, name, 401, "Invalid email or password")
    [] name = "UserNotFoundException" ->
         caughtResponse("auth", req, name, 404, "User not found")
    [] name = "CodeMismatchException" ->
         caughtResponse("auth", req, name, 400, "Invalid confirmation code")
    [] name = "ExpiredCodeException" ->
         caughtResponse("auth", req, name, 400, "Confirmation code has expired")
    [] name = "InvalidPasswordException" ->
         caughtResponse("auth", req, name, 400,
                        "Password does not meet requirements")
    [] name = "InvalidParameterException" ->
         caughtResponse("auth", req, name, 400, name)
    [] OTHER ->
         caughtResponse("auth", req, name, 500, "Authentication failed")

\* extractUserClaims: null without claims or without a subject
extractUserClaims(claims) == claims.sub # ""

\* what the identity provider can answer to a call about the account of u:
\* it creates no second account for a username and serves no missing one
CognitoCan(call, u, out) ==
  /\ (out \in {"ok", "noAuthResult"}) =>
       IF call = "SignUp" THEN accounts[u] = NoAccount
       ELSE accounts[u] # NoAccount
  /\ (out = "noAuthResult") => call = "InitiateAuth"
  /\ (out = "UsernameExistsException") => accounts[u] # NoAccount
  /\ (out = "UserNotFoundException") => accounts[u] = NoAccount

\* a route function that validates the body and makes one provider call
\* which leaves the accounts as they are
oneCall(req, body, out, status, noResultText) ==
  IF body = NoBody
  THEN errorResponse("auth", req, 400, "required fields are missing")
  ELSE IF out = "ok" THEN Response("auth", req, status, {})
  ELSE IF out = "noAuthResult" THEN errorResponse("auth", req, 401, noResultText)
  ELSE authCatch(req, out)

signup(req, body, out) ==
  /\ body # NoBody => CognitoCan("SignUp", body.user, out)
  /\ resp' = oneCall(req, body, out, 201, "")
  /\ accounts' =
       IF body # NoBody /\ out = "ok"
       THEN [accounts EXCEPT ![body.user] =
               [email |-> IF body.guest THEN "guest" ELSE "regular",
                names |-> "n0", password |-> "p0"]]
       ELSE accounts

signin(req, body, out) ==
  /\ body # NoBody => CognitoCan("InitiateAuth", body.user, out)
  /\ resp' = oneCall(req, body, out, 200, "Authentication failed")
  /\ accounts' = accounts

refresh(req, body, out) ==
  /\ body # NoBody => CognitoCan("InitiateAuth", body.user, out)
  /\ resp' = oneCall(req, body, out, 200, "Token refresh failed")
  /\ accounts' = accounts

forgotPassword(req, body, out) ==
  /\ body # NoBody => CognitoCan("ForgotPassword", body.user, out)
  /\ resp' = oneCall(req, body, out, 200, "")
  /\ accounts' = accounts

confirmForgotPassword(req, body, out) ==
  /\ body # NoBody => CognitoCan("ConfirmForgotPassword", body.user, out)
  /\ resp' = oneCall(req, body, out, 200, "")
  /\ accounts' =
       IF body # NoBody /\ out = "ok"
       THEN [accounts EXCEPT ![body.user].password = "p1"]
       ELSE accounts

\* the route function answering without looking for the caller's claims
getMe_noClaimsCheck(req) ==
  /\ resp' = Response("auth", req, 200, {})
  /\ accounts' = accounts

getMe(req) ==
  /\ resp' = IF ~extractUserClaims(req.claims)
             THEN errorResponse("auth", req, 401, "Unauthorized")
             ELSE Response("auth", req, 200, {})
  /\ accounts' = accounts

\* the calls of deleteMe in program order; failAt "none" is past the last
DeleteStep(failAt) ==
  CASE failAt = "queryImages" -> 1
    [] failAt = "deleteObjects" -> 2
    [] failAt = "deleteImages" -> 3
    [] failAt = "queryAnalysis" -> 4
    [] failAt = "deleteAnalysis" -> 5
    [] failAt = "deleteUser" -> 6
    [] failAt = "none" -> 7

\* QueryCommand on the userId index of a table: the items that carry the
\* userId attribute with this value
queryByUser(tbl, userId) ==
  {i \in Ids : /\ tbl[i] # NoItem
               /\ "userId" \in DOMAIN tbl[i]
               /\ tbl[i].userId = userId}

\* deleteMe deleting the identity-provider account before the data
deleteMe_accountFirst(req, failAt, out) ==
  IF ~extractUserClaims(req.claims)
  THEN /\ failAt = "none" /\ out = "ok"
       /\ resp' = errorResponse("auth", req, 401, "Unauthorized")
       /\ UNCHANGED <<objects, images, analysis, accounts>>
  ELSE
    LET userId == req.claims.sub
        owned == queryByUser(images, userId)
        ownedAnalysis == queryByUser(analysis, userId)
        n == DeleteStep(failAt)
    IN
    /\ (failAt = "none") = (out = "ok")
    /\ failAt \in {"deleteObjects", "deleteImages"} => owned # {}
    /\ failAt = "deleteAnalysis" => ownedAnalysis # {}
    /\ IF failAt = "deleteUser"
       THEN out \in CognitoErrors /\ CognitoCan("AdminDeleteUser", userId, out)
       ELSE /\ out \in {"ok", ErrDynamo, ErrS3}
            /\ (out = ErrS3) = (failAt = "deleteObjects")
            /\ failAt = "none" => accounts[userId] # NoAccount
    /\ objects' = IF n > 2 THEN objects \ {images[i].s3Key : i \in owned}
                  ELSE objects
    /\ images' = IF n > 3 THEN [i \in Ids |-> IF i \in owned THEN NoItem
                                                ELSE images[i]]
                 ELSE images
    /\ analysis' = IF n > 5 THEN [i \in Ids |-> IF i \in ownedAnalysis THEN NoItem
                                                  ELSE analysis[i]]
                   ELSE analysis
    /\ accounts' = [accounts EXCEPT ![userId] = NoAccount]
    /\ resp' = IF failAt = "none" THEN Response("auth", req, 200, {})
               ELSE authCatch(req, out)

\* DELETE /api/auth/me: the calls before failAt have taken effect; out is the
\* error the failing call raises, rethrown to the handler's catch block
deleteMe(req, failAt, out) ==
  IF ~extractUserClaims(req.claims)
  THEN /\ failAt = "none" /\ out = "ok"
       /\ resp' = errorResponse("auth", req, 401, "Unauthorized")
       /\ UNCHANGED <<objects, images, analysis, accounts>>
  ELSE
    LET userId == req.claims.sub
        owned == queryByUser(images, userId)
        ownedAnalysis == queryByUser(analysis, userId)
        n == DeleteStep(failAt)
    IN
    /\ (failAt = "none") = (out = "ok")
    /\ failAt \in {"deleteObjects", "deleteImages"} => owned # {}
    /\ failAt = "deleteAnalysis" => ownedAnalysis # {}
    /\ IF failAt = "deleteUser"
       THEN out \in CognitoErrors /\ CognitoCan("AdminDeleteUser", userId, out)
       ELSE /\ out \in {"ok", ErrDynamo, ErrS3}
            /\ (out = ErrS3) = (failAt = "deleteObjects")
            /\ failAt = "none" => accounts[userId] # NoAccount
    /\ objects' = IF n > 2 THEN objects \ {images[i].s3Key : i \in owned}
                  ELSE objects
    /\ images' = IF n > 3 THEN [i \in Ids |-> IF i \in owned THEN NoItem
                                                ELSE images[i]]
                 ELSE images
    /\ analysis' = IF n > 5 THEN [i \in Ids |-> IF i \in ownedAnalysis THEN NoItem
                                                  ELSE analysis[i]]
                   ELSE analysis
    /\ accounts' = IF n > 6 THEN [accounts EXCEPT ![userId] = NoAccount]
                   ELSE accounts
    /\ resp' = IF failAt = "none" THEN Response("auth", req, 200, {})
               ELSE authCatch(req, out)

\* PATCH /api/auth/upgrade: the attributes, then the password, then a sign-in
upgradeAccount(req, body, failAt, out) ==
  LET userId == req.claims.sub IN
  IF ~extractUserClaims(req.claims)
  THEN /\ failAt = "none" /\ out = "ok"
       /\ resp' = errorResponse("auth", req, 401, "Unauthorized")
       /\ accounts' = accounts
  ELSE IF body = NoBody
  THEN /\ failAt = "none" /\ out = "ok"
       /\ resp' = errorResponse("auth", req, 400, "required fields are missing")
       /\ accounts' = accounts
  ELSE IF accounts[userId].email # "guest"
  THEN /\ failAt = "none" /\ out = "ok"
       /\ resp' = errorResponse("auth", req, 400,
                                "Only guest accounts can be upgraded")
       /\ accounts' = accounts
  ELSE
    /\ out \in {"ok", "noAuthResult"} \cup CognitoErrors
    /\ (failAt = "none") = (out \in {"ok", "noAuthResult"})
    /\ out \notin {"UserNotFoundException"}
    /\ accounts' =
         IF failAt = "updateAttributes" THEN accounts
         ELSE IF failAt = "setPassword"
         THEN [accounts EXCEPT
                 ![userId].email = IF body.guest THEN "guest" ELSE "regular",
                 ![userId].names = "n1"]
         ELSE [accounts EXCEPT
                 ![userId].email = IF body.guest THEN "guest" ELSE "regular",
                 ![userId].names = "n1", ![userId].password = "p1"]
    /\ resp' =
         IF out = "ok" THEN Response("auth", req, 200, {})
         ELSE IF out = "noAuthResult"
         THEN errorResponse("auth", req, 500, "Failed to generate new tokens")
         ELSE IF out \in {"AliasExistsException", "UsernameExistsException"}
         THEN caughtResponse("auth", req, out, 409,
                             "An account with this email already exists")
         ELSE IF out = "InvalidPasswordException"
         THEN caughtResponse("auth", req, out, 400,
                             "Password does not meet requirements")
         ELSE authCatch(req, out)

AuthOutcomes == {"ok", "noAuthResult"} \cup CognitoErrors \cup {ErrDynamo, ErrS3}

DeleteFailAts ==
  {"none", "queryImages", "deleteObjects", "deleteImages", "queryAnalysis",
   "deleteAnalysis", "deleteUser"}

UpgradeFailAts == {"none", "updateAttributes", "setPassword", "initiateAuth"}

\* the bodies of upgrade requests: the new email is a regular address
UpgradeBodies == {b \in Bodies : ~b.guest}

\* the handler's route dispatch.  The routes that read no claims are sent
\* without; each route draws only the inputs its function reads.
authHandler(route) ==
  CASE route \in {"POST /api/auth/signup", "POST /api/auth/signin",
                  "POST /api/auth/refresh", "POST /api/auth/forgot-password",
                  "POST /api/auth/confirm-forgot-password"} ->
         \E body \in Bodies, out \in {"ok", "noAuthResult"} \cup CognitoErrors :
           LET req == [route |-> route, claims |-> NoClaims] IN
           /\ body = NoBody => out = "ok"
           /\ CASE route = "POST /api/auth/signup" -> signup(req, body, out)
                [] route = "POST /api/auth/signin" -> signin(req, body, out)
                [] route = "POST /api/auth/refresh" -> refresh(req, body, out)
                [] route = "POST /api/auth/forgot-password" ->
                     forgotPassword(req, body, out)
                [] route = "POST /api/auth/confirm-forgot-password" ->
                     confirmForgotPassword(req, body, out)
           /\ UNCHANGED <<objects, images, analysis>>
    [] route = "GET /api/auth/me" ->
         \E claims \in Claims \cup {NoClaims} :
           /\ getMe([route |-> route, claims |-> claims])
           /\ UNCHANGED <<objects, images, analysis>>
    [] route = "DELETE /api/auth/me" ->
         \E claims \in Claims \cup {NoClaims}, failAt \in DeleteFailAts,
            out \in AuthOutcomes :
           deleteMe([route |-> route, claims |-> claims], failAt, out)
    [] route = "PATCH /api/auth/upgrade" ->
         \E claims \in Claims \cup {NoClaims}, body \in UpgradeBodies \cup {NoBody},
            failAt \in UpgradeFailAts, out \in AuthOutcomes :
           /\ upgradeAccount([route |-> route, claims |-> claims], body, failAt, out)
           /\ UNCHANGED <<objects, images, analysis>>
    [] OTHER ->
         /\ resp' = errorResponse("auth", [route |-> route, claims |-> NoClaims],
                                  404, "Route not found")
         /\ UNCHANGED <<objects, images, analysis, accounts>>

AuthRequest ==
  \E route \in AuthRoutes :
    /\ resp = NoResp
    /\ authHandler(route)
    /\ UNCHANGED <<queue, inv, nextId, faults, mp, rx, uploader>>

\* -------------------------------------------------------- analysis handler
\* UpdateCommand SET #status = :status on Key {imageId}: DynamoDB creates the
\* item when the key does not exist
\* the status written with PutCommand, which replaces the whole item
updateImageStatus_put(tbl, imageId, status) ==
  [tbl EXCEPT ![imageId] = [status |-> status, imageId |-> imageId]]

updateImageStatus(tbl, imageId, status) ==
  IF tbl[imageId] = NoItem
  THEN [tbl EXCEPT ![imageId] = [status |-> status, imageId |-> imageId]]
  ELSE [tbl EXCEPT ![imageId].status = status]

initialAnalysis(message) ==
  [imageId |-> message.imageId, filename |-> message.filename,
   description |-> "", keywords |-> <<>>, detectedText |-> <<>>,
   status |-> "processing"]

\* the final record written without the extracted keywords
finalAnalysis_noKeywords(message, analysisResult) ==
  [imageId |-> message.imageId, filename |-> message.filename,
   description |-> analysisResult.description,
   keywords |-> <<>>,
   detectedText |-> analysisResult.detectedText,
   status |-> "completed", analyzedAt |-> "now"]

finalAnalysis(message, analysisResult) ==
  [imageId |-> message.imageId, filename |-> message.filename,
   description |-> analysisResult.description,
   keywords |-> analysisResult.keywords,
   detectedText |-> analysisResult.detectedText,
   status |-> "completed", analyzedAt |-> "now"]

\* the failed record written with a fixed text for the error
failedAnalysis_unknownError(imageId, error) ==
  [imageId |-> imageId, status |-> "failed", error |-> "Unknown error",
   analyzedAt |-> "now"]

failedAnalysis(imageId, error) ==
  [imageId |-> imageId, status |-> "failed", error |-> error,
   analyzedAt |-> "now"]

\* the invocation moves on to its next call, having logged the one it made
Advance(i, event, pc) ==
  inv' = [inv EXCEPT ![i].pc = pc, ![i].trace = Append(inv[i].trace, event)]

\* a call threw: control enters the catch block of processRecord
Catch(i, error) ==
  inv' = [inv EXCEPT ![i].pc = "catch_put_failed", ![i].err = error]

\* the catch block ending without its throw
Rethrow_swallowed(i) ==
  inv' = [inv EXCEPT ![i].pc = "returned"]

\* `throw error` at the end of the catch block, also when the inner try of the
\* two failure writes threw
Rethrow(i) ==
  inv' = [inv EXCEPT ![i].pc = "thrown"]

\* the queue hands the job of image i to the handler; processRecord parses
\* the body and reaches its first call
Receive(i) ==
  /\ queue[i].st = "visible"
  /\ inv[i].pc = "idle"
  /\ queue' = [queue EXCEPT ![i].st = "inflight", ![i].rc = queue[i].rc + 1]
  /\ inv' = [inv EXCEPT ![i] = [IdleInv EXCEPT !.pc = "update_processing"]]
  /\ resp' = NoResp
  /\ UNCHANGED <<objects, images, analysis, nextId, faults, accounts, mp, rx, uploader>>

\* a record whose body JSON.parse rejects: imageId stays '', the catch block
\* writes nothing and rethrows
ReceiveMalformed ==
  /\ inv[Malformed].pc = "idle"
  /\ Call(FALSE)
  /\ inv' = [inv EXCEPT ![Malformed] =
               [IdleInv EXCEPT !.pc = "thrown", !.err = "SyntaxError"]]
  /\ resp' = NoResp
  /\ UNCHANGED <<objects, images, analysis, queue, nextId, accounts, mp, rx, uploader>>

\* the first step without its status update
UpdateProcessing_noWrite(i, ok) ==
  /\ inv[i].pc = "update_processing"
  /\ Call(ok)
  /\ IF ok THEN Advance(i, "image:processing", "put_processing")
     ELSE Catch(i, ErrDynamo)
  /\ resp' = NoResp
  /\ UNCHANGED <<objects, images, analysis, queue, nextId, accounts, mp, rx, uploader>>

\* await updateImageStatus(imageId, 'processing')
UpdateProcessing(i, ok) ==
  /\ inv[i].pc = "update_processing"
  /\ Call(ok)
  /\ IF ok
     THEN /\ images' = updateImageStatus(images, i, "processing")
          /\ Advance(i, "image:processing", "put_processing")
     ELSE /\ Catch(i, ErrDynamo)
          /\ UNCHANGED images
  /\ resp' = NoResp
  /\ UNCHANGED <<objects, analysis, queue, nextId, accounts, mp, rx, uploader>>

\* await PutCommand(initialAnalysis)
PutProcessing(i, ok) ==
  /\ inv[i].pc = "put_processing"
  /\ Call(ok)
  /\ IF ok
     THEN /\ analysis' = [analysis EXCEPT ![i] = initialAnalysis(queue[i])]
          /\ Advance(i, "analysis:processing", "get_object")
     ELSE /\ Catch(i, ErrDynamo)
          /\ UNCHANGED analysis
  /\ resp' = NoResp
  /\ UNCHANGED <<objects, images, queue, nextId, accounts, mp, rx, uploader>>

\* await GetObjectCommand and read the body
GetObject(i, ok) ==
  /\ inv[i].pc = "get_object"
  /\ Call(ok)
  /\ IF ok /\ queue[i].s3Key \in objects
     THEN Advance(i, "object:get", "invoke_model")
     ELSE Catch(i, ErrS3)
  /\ resp' = NoResp
  /\ UNCHANGED <<objects, images, analysis, queue, nextId, accounts, mp, rx, uploader>>

\* await analyzeWithBedrock: one InvokeModelCommand, then parseBedrockResponse
InvokeModel(i, ok, analysisResult) ==
  /\ inv[i].pc = "invoke_model"
  /\ Call(ok)
  /\ IF ok
     THEN inv' = [inv EXCEPT ![i].pc = "put_completed",
                             ![i].trace = Append(inv[i].trace, "model:invoke"),
                             ![i].result = analysisResult]
     ELSE Catch(i, ErrBedrock)
  /\ resp' = NoResp
  /\ UNCHANGED <<objects, images, analysis, queue, nextId, accounts, mp, rx, uploader>>

\* await PutCommand(finalAnalysis)
PutCompleted(i, ok) ==
  /\ inv[i].pc = "put_completed"
  /\ Call(ok)
  /\ IF ok
     THEN /\ analysis' = [analysis EXCEPT
                            ![i] = finalAnalysis(queue[i], inv[i].result)]
          /\ Advance(i, "analysis:completed", "update_analyzed")
     ELSE /\ Catch(i, ErrDynamo)
          /\ UNCHANGED analysis
  /\ resp' = NoResp
  /\ UNCHANGED <<objects, images, queue, nextId, accounts, mp, rx, uploader>>

\* await updateImageStatus(imageId, 'analyzed'); processRecord returns
UpdateAnalyzed(i, ok) ==
  /\ inv[i].pc = "update_analyzed"
  /\ Call(ok)
  /\ IF ok
     THEN /\ images' = updateImageStatus(images, i, "analyzed")
          /\ Advance(i, "image:analyzed", "returned")
     ELSE /\ Catch(i, ErrDynamo)
          /\ UNCHANGED images
  /\ resp' = NoResp
  /\ UNCHANGED <<objects, analysis, queue, nextId, accounts, mp, rx, uploader>>

\* catch block: await PutCommand({imageId, status: 'failed', error, ...});
\* when it throws, the inner catch logs and the error is rethrown
CatchPutFailed(i, ok) ==
  /\ inv[i].pc = "catch_put_failed"
  /\ Call(ok)
  /\ IF ok
     THEN /\ analysis' = [analysis EXCEPT ![i] = failedAnalysis(i, inv[i].err)]
          /\ Advance(i, "analysis:failed", "catch_update_failed")
     ELSE /\ Rethrow(i)
          /\ UNCHANGED analysis
  /\ resp' = NoResp
  /\ UNCHANGED <<objects, images, queue, nextId, accounts, mp, rx, uploader>>

\* catch block: await updateImageStatus(imageId, 'failed'); throw error
CatchUpdateFailed(i, ok) ==
  /\ inv[i].pc = "catch_update_failed"
  /\ Call(ok)
  /\ IF ok
     THEN /\ images' = updateImageStatus(images, i, "failed")
          /\ inv' = [inv EXCEPT ![i].pc = "thrown",
                                ![i].trace = Append(inv[i].trace, "image:failed")]
     ELSE /\ Rethrow(i)
          /\ UNCHANGED images
  /\ resp' = NoResp
  /\ UNCHANGED <<objects, analysis, queue, nextId, accounts, mp, rx, uploader>>

\* the handler's promise settles: a resolved invocation deletes the message,
\* a rejected one makes it visible again until the redrive policy moves it
\* to the dead-letter queue
Settle(i) ==
  /\ inv[i].pc \in {"returned", "thrown"}
  /\ inv' = [inv EXCEPT ![i] = IdleInv]
  /\ queue' =
       IF i = Malformed THEN queue
       ELSE IF inv[i].pc = "returned" THEN [queue EXCEPT ![i] = NoMsg]
       ELSE IF queue[i].rc >= maxReceiveCount
            THEN [queue EXCEPT ![i].st = "dlq"]
            ELSE [queue EXCEPT ![i].st = "visible"]
  /\ resp' = NoResp
  /\ UNCHANGED <<objects, images, analysis, nextId, faults, accounts, mp, rx, uploader>>

\* API Gateway hands the settled invocation's result to the client
Respond ==
  /\ resp # NoResp
  /\ resp' = NoResp
  /\ UNCHANGED <<objects, images, analysis, queue, inv, nextId, faults, accounts, mp, rx, uploader>>

\* the steps of an invocation all of whose collaborator calls succeed
ProcessRecordOk ==
  \E i \in Ids :
    \/ UpdateProcessing(i, TRUE)
    \/ PutProcessing(i, TRUE)
    \/ GetObject(i, TRUE)
    \/ \E r \in ModelResults : InvokeModel(i, TRUE, r)
    \/ PutCompleted(i, TRUE)
    \/ UpdateAnalyzed(i, TRUE)

ProcessRecord ==
  \E i \in Ids, ok \in BOOLEAN :
    \/ UpdateProcessing(i, ok)
    \/ PutProcessing(i, ok)
    \/ GetObject(i, ok)
    \/ \E r \in ModelResults : InvokeModel(i, ok, r)
    \/ PutCompleted(i, ok)
    \/ UpdateAnalyzed(i, ok)
    \/ CatchPutFailed(i, ok)
    \/ CatchUpdateFailed(i, ok)

Next ==
  \/ UploadRequest
  \/ \E i \in Ids : Receive(i)
  \/ ReceiveMalformed
  \/ ProcessRecord
  \/ \E i \in Records : Settle(i)
  \/ Respond

Spec == Init /\ [][Next]_vars

\* the HTTP surface over the pipeline: uploads, the job of every uploaded
\* image processed by the analysis handler, and the query handler's routes
NextHttp ==
  \/ UploadRequest
  \/ QueryRequest
  \/ \E i \in Ids : Receive(i)
  \/ ProcessRecordOk
  \/ \E i \in Ids : Settle(i)
  \/ Respond

SpecHttp == Init /\ [][NextHttp]_vars

\* the three HTTP handlers, with no analysis job taken from the queue
NextApi ==
  \/ UploadRequest
  \/ QueryRequest
  \/ AuthRequest
  \/ Respond

SpecApi == Init /\ [][NextApi]_vars

\* the requests of an account's life: it is created and, later, deleted
AccountRequest ==
  \E route \in {"POST /api/auth/signup", "DELETE /api/auth/me"} :
    /\ resp = NoResp
    /\ authHandler(route)
    /\ UNCHANGED <<queue, inv, nextId, faults, mp, rx, uploader>>

\* accounts over the pipeline: callers sign up, upload, have their jobs
\* analysed (with calls that fail) and delete their accounts
NextAccount ==
  \/ UploadRequest
  \/ AccountRequest
  \/ \E i \in Ids : Receive(i)
  \/ ProcessRecord
  \/ \E i \in Ids : Settle(i)
  \/ Respond

SpecAccount == Init /\ [][NextAccount]_vars

\* the collaborators recover: the count of failed calls starts again, so that
\* the calls of every delivery of a job may fail
FaultsClear ==
  /\ faults = MaxFaults
  /\ faults' = 0
  /\ UNCHANGED <<objects, images, analysis, queue, inv, nextId, accounts, resp, mp, rx, uploader>>

\* an upload that enqueues a job: a valid file, every call succeeding; it
\* arrives when the jobs before it are at rest
UploadEnqueued ==
  \E claims \in Claims :
    /\ \A i \in Ids : queue[i].st \in {"none", "dlq"}
    /\ Upload([found |-> TRUE, contentType |-> "image/png", size |-> 1], "none", claims)

\* the pipeline under the queue's redrive policy, with failures that recur
NextRetry ==
  \/ UploadEnqueued
  \/ \E i \in Ids : Receive(i)
  \/ ProcessRecord
  \/ \E i \in Ids : Settle(i)
  \/ Respond
  \/ FaultsClear

\* the event source delivers every visible message, an invocation runs to
\* the end of processRecord, and its promise settles
FairDelivery ==
  \A i \in Ids :
    /\ WF_vars(Receive(i))
    /\ WF_vars(ProcessRecord /\ inv'[i] # inv[i])
    /\ WF_vars(Settle(i))

SpecRetry == Init /\ [][NextRetry]_vars /\ FairDelivery

\* the analysis handler's input is a record of the queue: here the records
\* are the job messages of images whose image record does not exist (never
\* created, or deleted), with the object still stored or not
OrphanJob(i) == sqsMessage(i, [found |-> TRUE, contentType |-> "image/png", size |-> 1])

InitOrphan ==
  /\ objects \in SUBSET {OrphanJob(i).s3Key : i \in Ids}
  /\ images = [i \in Ids |-> NoItem]
  /\ analysis = [i \in Ids |-> NoItem]
  /\ queue = [i \in Ids |-> OrphanJob(i)]
  /\ inv = [i \in Records |-> IdleInv]
  /\ nextId = MaxImages + 1
  /\ faults = 0
  /\ accounts = [u \in Users |-> NoAccount]
  /\ resp = NoResp
  /\ uploader = [i \in Ids |-> ""]
  /\ mp = NoMp
  /\ rx = NoRx

NextOrphan ==
  \/ \E i \in Ids : Receive(i)
  \/ ProcessRecord
  \/ \E i \in Ids : Settle(i)

SpecOrphan == InitOrphan /\ [][NextOrphan]_vars

\* the invocation that a second, concurrent delivery of the job of image i
\* starts: the queue delivers at least once
Dup(i) == 0 - i

\* the message of an invocation in flight is delivered again
ReceiveDuplicate(i) ==
  /\ queue[i].st = "inflight"
  /\ queue[i].rc < maxReceiveCount
  /\ inv[Dup(i)].pc = "idle"
  /\ queue' = [queue EXCEPT ![i].rc = queue[i].rc + 1]
  /\ inv' = [inv EXCEPT ![Dup(i)] = [IdleInv EXCEPT !.pc = "update_processing"]]
  /\ resp' = NoResp
  /\ UNCHANGED <<objects, images, analysis, nextId, faults, accounts, mp, rx, uploader>>

\* the next call of processRecord in the second invocation, on the records
\* of the same image
DuplicateStep(i, ok, analysisResult) ==
  LET d == Dup(i)
      pc == inv[d].pc
  IN
  /\ pc \in {"update_processing", "put_processing", "get_object", "invoke_model",
              "put_completed", "update_analyzed", "catch_put_failed",
              "catch_update_failed"}
  /\ Call(ok)
  /\ images' =
       IF ~ok THEN images
       ELSE CASE pc = "update_processing" -> updateImageStatus(images, i, "processing")
              [] pc = "update_analyzed" -> updateImageStatus(images, i, "analyzed")
              [] pc = "catch_update_failed" -> updateImageStatus(images, i, "failed")
              [] OTHER -> images
  /\ analysis' =
       IF ~ok THEN analysis
       ELSE CASE pc = "put_processing" ->
                   [analysis EXCEPT ![i] = initialAnalysis(queue[i])]
              [] pc = "put_completed" ->
                   [analysis EXCEPT ![i] = finalAnalysis(queue[i], inv[d].result)]
              [] pc = "catch_put_failed" ->
                   [analysis EXCEPT ![i] = failedAnalysis(i, inv[d].err)]
              [] OTHER -> analysis
  /\ CASE pc = "update_processing" ->
            IF ok THEN Advance(d, "image:processing", "put_processing")
            ELSE Catch(d, ErrDynamo)
       [] pc = "put_processing" ->
            IF ok THEN Advance(d, "analysis:processing", "get_object")
            ELSE Catch(d, ErrDynamo)
       [] pc = "get_object" ->
            IF ok /\ queue[i].s3Key \in objects
            THEN Advance(d, "object:get", "invoke_model")
            ELSE Catch(d, ErrS3)
       [] pc = "invoke_model" ->
            IF ok
            THEN inv' = [inv EXCEPT ![d].pc = "put_completed",
                                    ![d].trace = Append(inv[d].trace, "model:invoke"),
                                    ![d].result = analysisResult]
            ELSE Catch(d, ErrBedrock)
       [] pc = "put_completed" ->
            IF ok THEN Advance(d, "analysis:completed", "update_analyzed")
            ELSE Catch(d, ErrDynamo)
       [] pc = "update_analyzed" ->
            IF ok THEN Advance(d, "image:analyzed", "returned")
            ELSE Catch(d, ErrDynamo)
       [] pc = "catch_put_failed" ->
            IF ok THEN Advance(d, "analysis:failed", "catch_update_failed")
            ELSE Rethrow(d)
       [] pc = "catch_update_failed" ->
            IF ok THEN inv' = [inv EXCEPT ![d].pc = "thrown",
                                          ![d].trace = Append(inv[d].trace, "image:failed")]
            ELSE Rethrow(d)
  /\ resp' = NoResp
  /\ UNCHANGED <<objects, queue, nextId, accounts, mp, rx, uploader>>

DuplicateRecord ==
  \E i \in Ids, ok \in BOOLEAN, r \in ModelResults : DuplicateStep(i, ok, r)

\* as Init, with the invocations of the second deliveries idle
InitDuplicate ==
  /\ objects = {}
  /\ images = [i \in Ids |-> NoItem]
  /\ analysis = [i \in Ids |-> NoItem]
  /\ queue = [i \in Ids |-> NoMsg]
  /\ inv = [i \in Records \cup {Dup(j) : j \in Ids} |-> IdleInv]
  /\ nextId = 1
  /\ faults = 0
  /\ accounts = [u \in Users |-> NoAccount]
  /\ resp = NoResp
  /\ uploader = [i \in Ids |-> ""]
  /\ mp = NoMp
  /\ rx = NoRx

\* the pipeline with a job delivered to two invocations that run concurrently
NextDuplicate ==
  \/ UploadEnqueued
  \/ \E i \in Ids : Receive(i)
  \/ ProcessRecord
  \/ \E i \in Ids : ReceiveDuplicate(i)
  \/ DuplicateRecord
  \/ Respond

SpecDuplicate == InitDuplicate /\ [][NextDuplicate]_vars

\* ---------------------------------------------------- multipart extraction
\* bytes the extractor compares against: 0x0d, 0x0a, 0x2d
CR == 13

LF == 10

DASH == 45

CRLF == <<CR, LF>>

\* the bytes of file contents and boundary tokens: CR, LF, '-' and 'b'
ContentBytes == {CR, LF, DASH, 98}

BoundaryTokens == {<<98>>, <<98, 98>>}

FieldNames == <<"image", "file", "other">>

Filenames == <<"a.png", "b.jpg">>

PartTypes == <<"image/png", "text/plain">>

Ix(seq, x) == CHOOSE i \in 1 .. Len(seq) : seq[i] = x

\* A header line of a part stands in the body as one code above the byte
\* range:  Content-Disposition: form-data; name="<n>"[; filename="<f>"]
\* and     Content-Type: <t>
DispositionLine(name, filename) ==
  1000 + 10 * Ix(FieldNames, name)
       + (IF filename = "" THEN 0 ELSE Ix(Filenames, filename))

ContentTypeLine(type) == 2000 + Ix(PartTypes, type)

\* the multipart/form-data body a client sends for the parts, each
\* [name, filename, contentType, content], under the boundary token
RECURSIVE EncodeParts(_, _)
EncodeParts(boundary, parts) ==
  IF parts = <<>> THEN <<DASH, DASH>> \o boundary \o <<DASH, DASH>> \o CRLF
  ELSE <<DASH, DASH>> \o boundary \o CRLF
       \o <<DispositionLine(Head(parts).name, Head(parts).filename)>> \o CRLF
       \o <<ContentTypeLine(Head(parts).contentType)>> \o CRLF
       \o CRLF \o Head(parts).content \o CRLF
       \o EncodeParts(boundary, Tail(parts))

\* buffer[k]: undefined (-1) outside the buffer
At(buffer, k) == IF k >= 0 /\ k < Len(buffer) THEN buffer[k + 1] ELSE -1

\* Buffer.slice(start, end): a negative offset counts from the end
slice(buffer, start, end) ==
  LET norm(k) == IF k < 0 THEN (IF Len(buffer) + k < 0 THEN 0 ELSE Len(buffer) + k)
                 ELSE IF k > Len(buffer) THEN Len(buffer) ELSE k
  IN SubSeq(buffer, norm(start) + 1, norm(end))

Occurrences(buffer, value, from) ==
  {k \in from .. Len(buffer) - Len(value) :
     \A j \in 1 .. Len(value) : buffer[k + j] = value[j]}

indexOf(buffer, value, from) ==
  LET occ == Occurrences(buffer, value, from)
  IN IF occ = {} THEN -1 ELSE CHOOSE k \in occ : \A j \in occ : k <= j

lastIndexOf(buffer, value) ==
  LET occ == Occurrences(buffer, value, 0)
  IN IF occ = {} THEN -1 ELSE CHOOSE k \in occ : \A j \in occ : k >= j

\* the while loop of splitByBoundary, entered with start and parts
RECURSIVE splitFrom(_, _, _, _)
splitFrom(buffer, boundary, start, parts) ==
  LET boundaryIndex == indexOf(buffer, boundary, start)
      partStart == IF At(buffer, start) = CR /\ At(buffer, start + 1) = LF
                   THEN start + 2 ELSE start
      partEnd == IF /\ boundaryIndex >= 2
                    /\ At(buffer, boundaryIndex - 2) = CR
                    /\ At(buffer, boundaryIndex - 1) = LF
                 THEN boundaryIndex - 2 ELSE boundaryIndex
      pushed == IF start > 0 /\ partEnd > partStart
                THEN Append(parts, slice(buffer, partStart, partEnd))
                ELSE parts
      next == boundaryIndex + Len(boundary)
  IN IF boundaryIndex = -1 THEN parts
     ELSE IF At(buffer, next) = DASH /\ At(buffer, next + 1) = DASH THEN pushed
     ELSE splitFrom(buffer, boundary, next, pushed)

splitByBoundary(buffer, boundary) == splitFrom(buffer, boundary, 0, <<>>)

\* headerSection.match(...): the first header line of the section the
\* regular expression matches, 0 if none
nameMatch(headerSection) ==
  LET at == {j \in 1 .. Len(headerSection) : headerSection[j] \in 1000 .. 1999}
  IN IF at = {} THEN 0 ELSE headerSection[CHOOSE j \in at : \A k \in at : j <= k]

filenameMatch(headerSection) ==
  LET at == {j \in 1 .. Len(headerSection) :
               /\ headerSection[j] \in 1000 .. 1999
               /\ headerSection[j] % 10 # 0}
  IN IF at = {} THEN 0 ELSE headerSection[CHOOSE j \in at : \A k \in at : j <= k]

fileContentTypeMatch(headerSection) ==
  LET at == {j \in 1 .. Len(headerSection) : headerSection[j] \in 2000 .. 2999}
  IN IF at = {} THEN 0 ELSE headerSection[CHOOSE j \in at : \A k \in at : j <= k]

\* what parseMultipartFormData returns when it returns null
MpNull == [found |-> FALSE, filename |-> "", contentType |-> "", content |-> <<>>]

\* the body of the for loop over the parts, for one part that has a header end
extractPart(part, boundaryBuffer) ==
  LET headerEndIndex == indexOf(part, CRLF \o CRLF, 0)
      headerSection == slice(part, 0, headerEndIndex)
      content == slice(part, headerEndIndex + 4, Len(part))
      fieldName == FieldNames[(nameMatch(headerSection) - 1000) \div 10]
      trailingBoundaryIndex == lastIndexOf(content, boundaryBuffer)
      cleanContent == IF trailingBoundaryIndex > 0
                      THEN slice(content, 0, trailingBoundaryIndex - 2)
                      ELSE content
      stripped == IF /\ Len(cleanContent) >= 2
                     /\ At(cleanContent, Len(cleanContent) - 2) = CR
                     /\ At(cleanContent, Len(cleanContent) - 1) = LF
                  THEN slice(cleanContent, 0, -2)
                  ELSE cleanContent
  IN IF nameMatch(headerSection) = 0 THEN MpNull
     ELSE IF filenameMatch(headerSection) # 0 /\ fieldName \in {"image", "file"}
     THEN [found |-> TRUE,
           filename |-> Filenames[filenameMatch(headerSection) % 10],
           contentType |-> IF fileContentTypeMatch(headerSection) = 0
                           THEN "application/octet-stream"
                           ELSE PartTypes[fileContentTypeMatch(headerSection) - 2000],
           content |-> stripped]
     ELSE MpNull

\* the loop keeping the last qualifying part where it should return the first
RECURSIVE firstFile_lastWins(_, _)
firstFile_lastWins(parts, boundaryBuffer) ==
  IF parts = <<>> THEN MpNull
  ELSE IF firstFile_lastWins(Tail(parts), boundaryBuffer).found
       THEN firstFile_lastWins(Tail(parts), boundaryBuffer)
  ELSE IF indexOf(Head(parts), CRLF \o CRLF, 0) = -1 THEN MpNull
  ELSE extractPart(Head(parts), boundaryBuffer)

RECURSIVE firstFile(_, _)
firstFile(parts, boundaryBuffer) ==
  IF parts = <<>> THEN MpNull
  ELSE IF indexOf(Head(parts), CRLF \o CRLF, 0) = -1
       THEN firstFile(Tail(parts), boundaryBuffer)
  ELSE IF extractPart(Head(parts), boundaryBuffer).found
       THEN extractPart(Head(parts), boundaryBuffer)
  ELSE firstFile(Tail(parts), boundaryBuffer)

\* event: the body's bytes and the boundary parameter of the Content-Type
\* header (<<>> when the header has none)
parseMultipartFormData(event) ==
  IF event.body = <<>> THEN MpNull
  ELSE IF event.boundary = <<>> THEN MpNull
  ELSE firstFile(splitByBoundary(event.body, <<DASH, DASH>> \o event.boundary),
                 <<DASH, DASH>> \o event.boundary)

\* contents of at most MaxLen bytes
RECURSIVE BytesUpTo(_)
BytesUpTo(n) ==
  IF n = 0 THEN {<<>>}
  ELSE BytesUpTo(n - 1) \cup
       {Append(s, b) : s \in {t \in BytesUpTo(n - 1) : Len(t) = n - 1},
                       b \in ContentBytes}

\* a request with one file part named 'image'
MpInputs ==
  {[pc |-> "input", boundary |-> bd, filename |-> f, content |-> c,
    body |-> <<>>, out |-> MpNull] :
     bd \in BoundaryTokens, f \in {Filenames[i] : i \in 1 .. Len(Filenames)},
     c \in BytesUpTo(MaxLen)}

\* the client encodes the file into the request body
MpEncode ==
  /\ mp.pc = "input"
  /\ mp' = [mp EXCEPT
             !.pc = "encoded",
             !.body = EncodeParts(mp.boundary,
                        <<[name |-> "image", filename |-> mp.filename,
                           contentType |-> "image/png", content |-> mp.content]>>)]
  /\ UNCHANGED <<objects, images, analysis, queue, inv, nextId, faults, accounts, resp, rx, uploader>>

\* the upload handler extracts the file from the request body
MpExtract ==
  /\ mp.pc = "encoded"
  /\ mp' = [mp EXCEPT
             !.pc = "extracted",
             !.out = parseMultipartFormData(
                       [body |-> mp.body, boundary |-> mp.boundary])]
  /\ UNCHANGED <<objects, images, analysis, queue, inv, nextId, faults, accounts, resp, rx, uploader>>

\* the body a client sends for parts some of which (sep FALSE) lack the blank
\* line between their header lines and their content
RECURSIVE EncodeForm(_, _)
EncodeForm(boundary, parts) ==
  IF parts = <<>> THEN <<DASH, DASH>> \o boundary \o <<DASH, DASH>> \o CRLF
  ELSE <<DASH, DASH>> \o boundary \o CRLF
       \o <<DispositionLine(Head(parts).name, Head(parts).filename)>> \o CRLF
       \o <<ContentTypeLine(Head(parts).contentType)>> \o CRLF
       \o (IF Head(parts).sep THEN CRLF ELSE <<>>)
       \o Head(parts).content \o CRLF
       \o EncodeForm(boundary, Tail(parts))

\* the k-th part of a form carries k bytes, so that parts differ in content
FormParts(k) ==
  {[name |-> n, filename |-> f, contentType |-> PartTypes[1 + (k % 2)],
    content |-> [j \in 1 .. k |-> 98], sep |-> s] :
     n \in {FieldNames[i] : i \in 1 .. Len(FieldNames)},
     f \in {""} \cup {Filenames[i] : i \in 1 .. Len(Filenames)},
     s \in BOOLEAN}

\* forms of at most n parts
RECURSIVE FormsUpTo(_)
FormsUpTo(n) ==
  IF n = 0 THEN {<<>>}
  ELSE FormsUpTo(n - 1) \cup
       {Append(s, q) : s \in {u \in FormsUpTo(n - 1) : Len(u) = n - 1},
                       q \in FormParts(n)}

FormInputs ==
  {[pc |-> "form", boundary |-> bd, parts |-> ps, filename |-> "",
    content |-> <<>>, body |-> <<>>, out |-> MpNull] :
     bd \in BoundaryTokens, ps \in FormsUpTo(MaxParts) \ {<<>>}}

\* the client encodes the parts of the form into the request body
MpEncodeForm ==
  /\ mp.pc = "form"
  /\ mp' = [mp EXCEPT !.pc = "encoded",
                      !.body = EncodeForm(mp.boundary, mp.parts)]
  /\ UNCHANGED <<objects, images, analysis, queue, inv, nextId, faults, accounts, resp, rx, uploader>>

InitForm == Empty /\ mp \in FormInputs /\ rx = NoRx

NextForm == MpEncodeForm \/ MpExtract

SpecForm == InitForm /\ [][NextForm]_vars

InitMP == Empty /\ mp \in MpInputs /\ rx = NoRx

NextMP == MpEncode \/ MpExtract

SpecMP == InitMP /\ [][NextMP]_vars

\* --------------------------------------------------- response extraction
\* text is a sequence of characters
Upper ==
  <<"A", "B", "C", "D", "E", "F", "G", "H", "I", "J", "K", "L", "M",
    "N", "O", "P", "Q", "R", "S", "T", "U", "V", "W", "X", "Y", "Z">>

Lowers ==
  <<"a", "b", "c", "d", "e", "f", "g", "h", "i", "j", "k", "l", "m",
    "n", "o", "p", "q", "r", "s", "t", "u", "v", "w", "x", "y", "z">>

toLowerCase(c) ==
  IF \E i \in 1 .. Len(Upper) : Upper[i] = c
  THEN Lowers[CHOOSE i \in 1 .. Len(Upper) : Upper[i] = c]
  ELSE c

\* the characters \s matches and trim() removes
WhiteSpace == {" ", "\n", "\t", "\r"}

LabelDescription == <<"D", "E", "S", "C", "R", "I", "P", "T", "I", "O", "N", ":">>

LabelKeywords == <<"K", "E", "Y", "W", "O", "R", "D", "S", ":">>

LabelDetectedText == <<"D", "E", "T", "E", "C", "T", "E", "D", "_", "T", "E", "X", "T", ":">>

\* the pattern matches at position p of the text; the i flag ignores case
MatchesAt(text, p, pattern) ==
  /\ p >= 1
  /\ p + Len(pattern) - 1 <= Len(text)
  /\ \A j \in 1 .. Len(pattern) :
       toLowerCase(text[p + j - 1]) = toLowerCase(pattern[j])

\* String.includes
includes(text, pattern) ==
  \E p \in 1 .. Len(text) + 1 : MatchesAt(text, p, pattern)

\* String.trim
trim(text) ==
  LET inner == {k \in 1 .. Len(text) : text[k] \notin WhiteSpace}
  IN IF inner = {} THEN <<>>
     ELSE SubSeq(text, CHOOSE k \in inner : \A j \in inner : k <= j,
                       CHOOSE k \in inner : \A j \in inner : k >= j)

\* the lookahead left out: the group runs to the end of the text
labelMatch_toEnd(text, label, next) ==
  LET n == Len(text)
      at == {p \in 1 .. n : MatchesAt(text, p, label) /\ p + Len(label) <= n}
      p0 == CHOOSE p \in at : \A j \in at : p <= j
      rest == {k \in p0 + Len(label) .. n : text[k] \notin WhiteSpace}
      s == IF rest = {} THEN n ELSE CHOOSE k \in rest : \A j \in rest : k <= j
  IN IF at = {} THEN [found |-> FALSE, group |-> <<>>]
     ELSE [found |-> TRUE, group |-> SubSeq(text, s, n)]

\* responseText.match(/<label>\s*(.+?)(?=\n<next>|$)/is), the lookahead
\* being $ alone when next is <<>>: the first place the label stands with
\* a character after it; \s* takes the white space after the label (all but
\* its last character when nothing else follows), and the group runs, at
\* least one character, to just before the first '\n<next>' or to the end
labelMatch(text, label, next) ==
  LET n == Len(text)
      at == {p \in 1 .. n : MatchesAt(text, p, label) /\ p + Len(label) <= n}
      p0 == CHOOSE p \in at : \A j \in at : p <= j
      q == p0 + Len(label)
      rest == {k \in q .. n : text[k] \notin WhiteSpace}
      s == IF rest = {} THEN n ELSE CHOOSE k \in rest : \A j \in rest : k <= j
      ends == {e \in s + 1 .. n :
                 next # <<>> /\ MatchesAt(text, e, <<"\n">> \o next)}
      e0 == IF ends = {} THEN n + 1 ELSE CHOOSE e \in ends : \A j \in ends : e <= j
  IN IF at = {} THEN [found |-> FALSE, group |-> <<>>]
     ELSE [found |-> TRUE, group |-> SubSeq(text, s, e0 - 1)]

\* String.split(',')
RECURSIVE split(_)
split(text) ==
  LET commas == {k \in 1 .. Len(text) : text[k] = ","}
      c == CHOOSE k \in commas : \A j \in commas : k <= j
  IN IF commas = {} THEN <<text>>
     ELSE <<SubSeq(text, 1, c - 1)>> \o split(SubSeq(text, c + 1, Len(text)))

\* .replace(/[\[\]]/g, '').split(',').map(trim): the entries of a list text
entriesOf(text) ==
  LET parts == split(SelectSeq(text, LAMBDA c : c \notin {"[", "]"}))
  IN [k \in 1 .. Len(parts) |-> trim(parts[k])]

\* length of the description the raw text is cut to
FALLBACK_LENGTH == 300

\* the whole text where its first characters belong
substring_whole(text, start, end) == text

\* String.substring(start, end)
substring(text, start, end) ==
  SubSeq(text, start + 1, IF Len(text) < end THEN Len(text) ELSE end)

\* the keyword entries without the cut to five
keywordsOf_noSlice(keywordsStr) ==
  SelectSeq(entriesOf(keywordsStr), LAMBDA k : Len(k) > 0)

\* keywordsStr.replace(..).split(',').map(trim).filter(non-empty).slice(0, 5)
keywordsOf(keywordsStr) ==
  LET nonEmpty == SelectSeq(entriesOf(keywordsStr), LAMBDA k : Len(k) > 0)
  IN SubSeq(nonEmpty, 1, IF Len(nonEmpty) < 5 THEN Len(nonEmpty) ELSE 5)

\* the detected-text entries filtered for emptiness alone
detectedTextOf_noFilter(textStr) ==
  IF includes(textStr, <<"n", "o", " ", "t", "e", "x", "t", " ", "d", "e", "t", "e", "c", "t", "e", "d">>)
  THEN <<>>
  ELSE SelectSeq(entriesOf(textStr), LAMBDA e : Len(e) > 0)

\* the detected-text list of the text after the DETECTED_TEXT: label
detectedTextOf(textStr) ==
  IF includes(textStr, <<"n", "o", " ", "t", "e", "x", "t", " ", "d", "e", "t", "e", "c", "t", "e", "d">>)
  THEN <<>>
  ELSE SelectSeq(entriesOf(textStr),
                 LAMBDA e : Len(e) > 0 /\ ~includes(e, <<"n", "o", " ", "t", "e", "x", "t">>))

\* the keyword list of the catch block where the fallback list belongs
FALLBACK_KEYWORDS_short == <<<<"i", "m", "a", "g", "e">>, <<"c", "o", "n", "t", "e", "n", "t">>>>

\* the keywords substituted when none was extracted
FALLBACK_KEYWORDS ==
  <<<<"i", "m", "a", "g", "e">>, <<"a", "n", "a", "l", "y", "s", "i", "s">>, <<"c", "o", "n", "t", "e", "n", "t">>, <<"v", "i", "s", "u", "a", "l">>, <<"p", "h", "o", "t", "o">>>>

parseBedrockResponse(responseText) ==
  LET descMatch == labelMatch(responseText, LabelDescription, LabelKeywords)
      keywordsMatch == labelMatch(responseText, LabelKeywords, LabelDetectedText)
      textMatch == labelMatch(responseText, LabelDetectedText, <<>>)
      description == IF descMatch.found THEN trim(descMatch.group) ELSE <<>>
      keywords == IF keywordsMatch.found
                  THEN keywordsOf(trim(keywordsMatch.group)) ELSE <<>>
      detectedText == IF textMatch.found
                      THEN detectedTextOf(trim(textMatch.group)) ELSE <<>>
  IN [description |-> IF description = <<>>
                      THEN substring(responseText, 0, FALLBACK_LENGTH)
                      ELSE description,
      keywords |-> IF keywords = <<>> THEN FALLBACK_KEYWORDS ELSE keywords,
      detectedText |-> detectedText]

\* number of entries of the keyword list of an answer
MaxKeywords == 6

\* number of entries of the detected-text list of an answer
MaxDetected == 2

\* descriptions of answers in the three-label format
Descs ==
  {<<"A", " ", "d", "o", "g", ".">>,
   <<" ", "A", " ", "d", "o", "g", ",", " ", "a", " ", "[", "r", "e", "d", "]", " ", "b", "a", "l", "l", ".", " ">>,
   <<" ">>,
   <<>>}

KeywordPool ==
  <<<<"d", "o", "g">>, <<" ", "p", "e", "t", " ">>, <<>>, <<"b", "r", "o", "w", "n">>,
    <<"a", "n", "i", "m", "a", "l">>, <<"c", "u", "t", "e">>, <<"s", "u", "n">>,
    <<"S", "e", "a">>>>

KeywordLists ==
  {[i \in 1 .. n |-> KeywordPool[((i + r) % Len(KeywordPool)) + 1]] :
     n \in 0 .. MaxKeywords, r \in 0 .. 2}

DetectedPool ==
  {<<" ", "S", "T", "O", "P", " ", "1", "2", " ">>, <<>>,
   <<"N", "o", " ", "T", "e", "x", "t", " ", "h", "e", "r", "e">>,
   <<"N", "o", " ", "t", "e", "x", "t", " ", "d", "e", "t", "e", "c", "t", "e", "d">>}

RECURSIVE ListsUpTo(_, _)
ListsUpTo(pool, n) ==
  IF n = 0 THEN {<<>>}
  ELSE ListsUpTo(pool, n - 1) \cup
       {Append(s, e) : s \in {u \in ListsUpTo(pool, n - 1) : Len(u) = n - 1},
                       e \in pool}

RECURSIVE Join(_)
Join(list) ==
  IF list = <<>> THEN <<>>
  ELSE IF Len(list) = 1 THEN list[1]
  ELSE list[1] \o <<",", " ">> \o Join(Tail(list))

\* an answer in the format the prompt asks for: the three labels on three lines
Compose(d, ks, ts) ==
  LabelDescription \o <<" ">> \o d \o <<"\n">>
  \o LabelKeywords \o <<" ", "[">> \o Join(ks) \o <<"]", "\n">>
  \o LabelDetectedText \o <<" ", "[">> \o Join(ts) \o <<"]">>

\* answers that do not follow the format
RawTexts ==
  {<<>>,
   <<"%", "$", "#", "@", " ", "g", "a", "r", "b", "a", "g", "e">>,
   [j \in 1 .. FALLBACK_LENGTH |-> "x"],
   [j \in 1 .. FALLBACK_LENGTH + 2 |-> IF j < FALLBACK_LENGTH THEN "x" ELSE "y"],
   <<"K", "E", "Y", "W", "O", "R", "D", "S", ":", " ", "a", ",", " ", "b">>,
   <<"d", "e", "t", "e", "c", "t", "e", "d", "_", "t", "e", "x", "t", ":", " ", "N", "o", " ", "T", "e", "x", "t", " ", "D", "e", "t", "e", "c", "t", "e", "d">>,
   <<"D", "e", "s", "c", "r", "i", "p", "t", "i", "o", "n", ":", " ", "a", " ", "c", "a", "t", "\n", "k", "e", "y", "w", "o", "r", "d", "s", ":", " ", "[", "a", ",", " ", "B", "]">>,
   <<"D", "E", "S", "C", "R", "I", "P", "T", "I", "O", "N", ":", " ", "A", " ", "d", "o", "g", ".", "\n", "K", "E", "Y", "W", "O", "R", "D", "S", ":", " ", "[", "d", "o", "g", ",", " ", "p", "e", "t", ",", " ", "b", "r", "o", "w", "n", ",", " ", "a", "n", "i", "m", "a", "l", ",", " ", "c", "u", "t", "e", "]", "\n", "D", "E", "T", "E", "C", "T", "E", "D", "_", "T", "E", "X", "T", ":", " ", "N", "o", " ", "t", "e", "x", "t", " ", "d", "e", "t", "e", "c", "t", "e", "d">>,
   <<"K", "E", "Y", "W", "O", "R", "D", "S", ":", " ", "[", "a", ",", " ", "b", ",", " ", "c", ",", " ", "d", ",", " ", "e", ",", " ", "f", ",", " ", "g", "]", "\n">> \o [j \in 1 .. FALLBACK_LENGTH |-> "z"]}

\* nothing extracted yet
NoOut == [description |-> <<>>, keywords |-> <<>>, detectedText |-> <<>>]

RxInputs ==
  {[pc |-> "form", d |-> d, ks |-> ks, ts |-> ts, text |-> <<>>,
    out |-> NoOut] :
     d \in Descs, ks \in KeywordLists, ts \in ListsUpTo(DetectedPool, MaxDetected)}
  \cup
  {[pc |-> "raw", d |-> <<>>, ks |-> <<>>, ts |-> <<>>, text |-> x,
    out |-> NoOut] : x \in RawTexts}

\* the model endpoint answers in the three-label format
RxAnswer ==
  /\ rx.pc = "form"
  /\ rx' = [rx EXCEPT !.pc = "formText", !.text = Compose(rx.d, rx.ks, rx.ts)]
  /\ UNCHANGED <<objects, images, analysis, queue, inv, nextId, faults, accounts, resp, mp, uploader>>

\* analyzeWithBedrock hands the answer's text to parseBedrockResponse
RxParse ==
  /\ rx.pc \in {"formText", "raw"}
  /\ rx' = [rx EXCEPT
             !.pc = IF rx.pc = "raw" THEN "rawParsed" ELSE "formParsed",
             !.out = parseBedrockResponse(rx.text)]
  /\ UNCHANGED <<objects, images, analysis, queue, inv, nextId, faults, accounts, resp, mp, uploader>>

InitText == Empty /\ mp = NoMp /\ rx \in RxInputs

NextText == RxAnswer \/ RxParse

SpecText == InitText /\ [][NextText]_vars

\* ------------------------------------------------------------------ claims
\* the step is an invocation of the upload handler
UploadStep == resp = NoResp /\ resp'.handler = "upload"

\* the extracted file passes the validation the claims state
ValidFile(formData) ==
  /\ formData.found
  /\ formData.contentType \in {"image/jpeg", "image/png", "image/gif", "image/webp"}
  /\ formData.size <= 10 * 1024 * 1024

\* C1: upload success.  An upload of a file with an allowed content type and
\* a size of at most 10 MiB, all of whose collaborator calls succeed, answers
\* 201 and has added exactly one object, one image record with status
\* 'uploaded' and one job message, all with the same new identifier and key.
C1_UploadSuccess ==
  [][(UploadStep /\ ValidFile(resp'.req.formData) /\ resp'.fault = "") =>
       /\ resp'.outcome = "resolved" /\ resp'.status = 201
       /\ \E id \in Ids :
            /\ resp'.data = {id}
            /\ images[id] = NoItem
            /\ images'[id].status = "uploaded" /\ images'[id].imageId = id
            /\ \A j \in Ids \ {id} : images'[j] = images[j]
            /\ objects \subseteq objects'
            /\ objects' \ objects = {images'[id].s3Key}
            /\ queue[id] = NoMsg
            /\ queue'[id].st = "visible" /\ queue'[id].imageId = id
            /\ queue'[id].s3Key = images'[id].s3Key
            /\ \A j \in Ids \ {id} : queue'[j] = queue[j]]_vars

C1_Witness ==
  /\ resp.handler = "upload" /\ resp.status = 201
  /\ \E id \in resp.data :
       /\ images[id].status = "uploaded"
       /\ images[id].s3Key \in objects
       /\ queue[id].st = "visible"

\* C2: upload rejection.  An upload from which no file is extracted, or whose
\* file has a content type outside the allow-list or a size above 10 MiB,
\* answers 400 and writes nothing to the bucket, the images table or the queue.
C2_UploadRejection ==
  [][(UploadStep /\ ~ValidFile(resp'.req.formData)) =>
       /\ resp'.outcome = "resolved" /\ resp'.status = 400
       /\ UNCHANGED <<objects, images, queue>>]_vars

C2_Witness ==
  /\ resp.handler = "upload" /\ resp.status = 400
  /\ resp.req.formData.found
  /\ resp.req.formData.contentType = "image/png"
  /\ resp.req.formData.size = 10 * 1024 * 1024 + 1

\* the owner identifier an item carries, "" when it carries none
Owner(item) == IF "userId" \in DOMAIN item THEN item.userId ELSE ""

\* the last response is the query handler's, to a caller outside the admin group
NonAdminQuery ==
  /\ resp.handler = "query" /\ resp.outcome = "resolved"
  /\ "admin" \notin resp.req.claims.groups

\* C3: ownership check on single-record reads.  On GET /api/images/{id},
\* GET /api/images/{id}/info and GET /api/analysis/{id} a caller outside the
\* admin group whose identifier differs from the owner identifier of the
\* existing record receives 403 and neither the record nor its locator.
C3_OwnershipCheck ==
  /\ (/\ NonAdminQuery
      /\ resp.req.route \in {"GET /api/images/{imageId}",
                             "GET /api/images/{imageId}/info"}
      /\ images[resp.req.imageId] # NoItem
      /\ Owner(images[resp.req.imageId]) # resp.req.claims.sub)
     => (resp.status = 403 /\ resp.data = {})
  /\ (/\ NonAdminQuery
      /\ resp.req.route = "GET /api/analysis/{imageId}"
      /\ analysis[resp.req.imageId] # NoItem
      /\ Owner(analysis[resp.req.imageId]) # resp.req.claims.sub)
     => (resp.status = 403 /\ resp.data = {})

\* C4: owner-filtered listing.  GET /api/images and GET /api/analysis return
\* to a caller outside the admin group only records whose owner identifier
\* is the caller's identifier.
C4_OwnerFilteredListing ==
  /\ (NonAdminQuery /\ resp.req.route = "GET /api/images")
     => \A i \in resp.data : Owner(images[i]) = resp.req.claims.sub
  /\ (NonAdminQuery /\ resp.req.route = "GET /api/analysis")
     => \A i \in resp.data : Owner(analysis[i]) = resp.req.claims.sub

\* C5: cascading delete.  DELETE /api/images/{id} for an existing image
\* succeeds, and after it the stored object, the image record and the
\* analysis record with that identifier are all absent.
C5_CascadingDelete ==
  [][(/\ resp = NoResp
      /\ resp'.handler = "query"
      /\ resp'.req.route = "DELETE /api/images/{imageId}"
      /\ images[resp'.req.imageId] # NoItem)
     => /\ resp'.status = 200
        /\ images[resp'.req.imageId].s3Key \notin objects'
        /\ images'[resp'.req.imageId] = NoItem
        /\ analysis'[resp'.req.imageId] = NoItem]_vars

Range(s) == {s[k] : k \in 1 .. Len(s)}

\* C6: analysis happy path ordering.  When processRecord returns normally
\* its calls were, in this order: image status 'processing', analysis record
\* 'processing', object fetched, model invoked once, analysis record
\* 'completed' with the extracted description, keywords and detected text,
\* image status 'analyzed'; the image is then 'analyzed' and the analysis
\* record 'completed'.
C6_HappyPathOrder ==
  \A i \in Ids :
    inv[i].pc = "returned" =>
      /\ inv[i].trace = <<"image:processing", "analysis:processing", "object:get",
                          "model:invoke", "analysis:completed", "image:analyzed">>
      /\ images[i].status = "analyzed"
      /\ analysis[i].status = "completed"
      /\ analysis[i].imageId = i
      /\ analysis[i].description = inv[i].result.description
      /\ analysis[i].keywords = inv[i].result.keywords
      /\ analysis[i].detectedText = inv[i].result.detectedText

C6_Witness ==
  \E i \in Ids :
    /\ inv[i].pc = "returned"
    /\ analysis[i].status = "completed"
    /\ analysis[i].keywords = <<"k1", "k2">>

\* C7: analysis failure is recorded.  When a step of processRecord threw
\* after the message was parsed and the two failure writes succeeded, then
\* as processRecord finishes the analysis record of the image is 'failed'
\* with the thrown error's message and the image record is 'failed'.
C7_FailureRecorded ==
  \A i \in Ids :
    (inv[i].pc = "thrown" /\ "image:failed" \in Range(inv[i].trace)) =>
      /\ inv[i].err # ""
      /\ analysis[i].status = "failed"
      /\ analysis[i].imageId = i
      /\ analysis[i].error = inv[i].err
      /\ images[i].status = "failed"

C7_Witness ==
  \E i \in Ids :
    /\ inv[i].pc = "thrown"
    /\ inv[i].err = ErrBedrock
    /\ "image:failed" \in Range(inv[i].trace)
    /\ analysis[i].status = "failed"

\* C8: analysis failure is always re-raised.  Once a step of an invocation
\* has thrown (the body that does not parse and the failure writes included)
\* the invocation goes through the failure handling to the throw with that
\* error and never returns normally, and the queue keeps the message of an
\* invocation that threw.
C8_FailureRethrown ==
  [][\A i \in Records :
       /\ inv'[i].pc = "returned" => inv'[i].err = ""
       /\ inv'[i].err # "" =>
            inv'[i].pc \in {"catch_put_failed", "catch_update_failed", "thrown"}
       /\ (inv[i].err # "" /\ inv'[i] # inv[i]) =>
            \/ /\ inv[i].pc \in {"catch_put_failed", "catch_update_failed"}
               /\ inv'[i].pc \in {"catch_update_failed", "thrown"}
               /\ inv'[i].err = inv[i].err
            \/ /\ inv[i].pc = "thrown"
               /\ inv'[i] = IdleInv
               /\ i \in Ids => queue'[i].st \in {"visible", "dlq"}]_vars

C8_Witness ==
  \E i \in Ids :
    /\ inv[i].pc = "thrown"
    /\ inv[i].err # ""
    /\ "analysis:failed" \notin Range(inv[i].trace)
    /\ analysis[i].status # "failed"

\* the errors no handler expects of its collaborators
UnexpectedErrors == {ErrDynamo, ErrS3, ErrSqs, "InternalErrorException"}

\* C9: unexpected failures become 500 responses.  When a collaborator call of
\* the upload, query or auth handler fails with an unexpected error, the
\* invocation resolves with status 500 and a fixed generic error text; it
\* never rejects with the error.
C9_Unexpected500 ==
  (resp.handler \in {"upload", "query", "auth"} /\ resp.fault \in UnexpectedErrors)
    => /\ resp.outcome = "resolved"
       /\ resp.status = 500
       /\ resp.error \in {"Failed to upload image", "Internal server error",
                          "Authentication failed"}

\* the body is well formed: the delimiter ('--' and the boundary token) does
\* not occur in the file content or across its edges
WellFormed ==
  Occurrences(CRLF \o mp.content \o CRLF, <<DASH, DASH>> \o mp.boundary, 0) = {}

\* C10: multipart round-trip.  For every file content, boundary token and
\* filename, extracting from the encoding of the content as the single file
\* part named 'image' returns the original bytes, with the same length.
C10_RoundTrip ==
  (mp.pc = "extracted" /\ WellFormed) =>
    /\ mp.out.found
    /\ mp.out.content = mp.content
    /\ Len(mp.out.content) = Len(mp.content)

\* the parts of the form the claim lets the extractor return
Qualifying ==
  {k \in 1 .. Len(mp.parts) :
     /\ mp.parts[k].sep
     /\ mp.parts[k].name \in {"image", "file"}
     /\ mp.parts[k].filename # ""}

FirstQualifying == CHOOSE k \in Qualifying : \A j \in Qualifying : k <= j

\* C11: multipart part selection.  The extractor returns the first part in
\* body order that is named 'image' or 'file', declares a non-empty filename
\* and has the blank-line separator, whatever parts follow it, and returns
\* 'not found' exactly when no part qualifies.
C11_PartSelection ==
  mp.pc = "extracted" =>
    IF Qualifying = {} THEN ~mp.out.found
    ELSE /\ mp.out.found
         /\ mp.out.filename = mp.parts[FirstQualifying].filename
         /\ mp.out.contentType = mp.parts[FirstQualifying].contentType
         /\ mp.out.content = mp.parts[FirstQualifying].content

C11_Witness ==
  /\ mp.pc = "extracted"
  /\ Len(mp.parts) = 2
  /\ Qualifying = {2}
  /\ ~mp.parts[1].sep /\ mp.parts[1].filename # ""
  /\ mp.out.found /\ mp.out.content = <<98, 98>>

\* the entries of a list trimmed, the empty ones left out
NonEmptyTrimmed(list) ==
  SelectSeq([k \in 1 .. Len(list) |-> trim(list[k])], LAMBDA e : e # <<>>)

FirstFive(list) == SubSeq(list, 1, IF Len(list) < 5 THEN Len(list) ELSE 5)

RxParsed == rx.pc \in {"formParsed", "rawParsed"}

\* C13: keyword truncation.  When the KEYWORDS section lists more than 5
\* non-empty entries the returned keywords are exactly its first 5, in their
\* order; for every input the returned keyword list has at most 5 entries.
C13_KeywordTruncation ==
  /\ (rx.pc = "formParsed" /\ Len(NonEmptyTrimmed(rx.ks)) > 5) =>
       /\ Len(rx.out.keywords) = 5
       /\ \A k \in 1 .. 5 : rx.out.keywords[k] = NonEmptyTrimmed(rx.ks)[k]
  /\ RxParsed => Len(rx.out.keywords) <= 5

C13_Witness ==
  /\ rx.pc = "formParsed"
  /\ Len(NonEmptyTrimmed(rx.ks)) = 6
  /\ Len(rx.out.keywords) = 5
  /\ rx.out.keywords[5] = <<"S", "e", "a">>

\* C14: description fallback.  For a text that does not contain the
\* DESCRIPTION: label (in any letter case) the description is the first 300
\* characters of the text, the whole text when it is shorter.
C14_DescriptionFallback ==
  (RxParsed /\ ~includes(rx.text, LabelDescription)) =>
    /\ Len(rx.text) <= 300 => rx.out.description = rx.text
    /\ Len(rx.text) > 300 =>
         /\ Len(rx.out.description) = 300
         /\ \A k \in 1 .. 300 : rx.out.description[k] = rx.text[k]

C14_Witness ==
  /\ rx.pc = "rawParsed"
  /\ ~includes(rx.text, LabelDescription)
  /\ Len(rx.text) = 302
  /\ Len(rx.out.description) = 300
  /\ rx.out.description[300] = "y"

\* the text contains none of the three labels
Unparseable ==
  /\ ~includes(rx.text, LabelDescription)
  /\ ~includes(rx.text, LabelKeywords)
  /\ ~includes(rx.text, LabelDetectedText)

\* the triple of the catch block of parseBedrockResponse
PARSE_FAILED ==
  [description |-> <<"A", "n", "a", "l", "y", "s", "i", "s", " ", "c", "o", "m", "p", "l", "e", "t", "e", "d", " ", "b", "u", "t", " ", "r", "e", "s", "p", "o", "n", "s", "e", " ", "p", "a", "r", "s", "i", "n", "g", " ", "f", "a", "i", "l", "e", "d">>,
   keywords |-> <<<<"i", "m", "a", "g", "e">>, <<"c", "o", "n", "t", "e", "n", "t">>>>,
   detectedText |-> <<>>]

\* C15 as stated: the extractor never fails.  For every text it returns a
\* triple, and for a text with none of the three labels the triple is the
\* fixed placeholder triple.
C15_NeverFails ==
  RxParsed =>
    /\ DOMAIN rx.out = {"description", "keywords", "detectedText"}
    /\ Unparseable => rx.out = PARSE_FAILED

\* C15 as amended: for every text the extractor returns a triple, and for a
\* text with none of the three labels the triple is the first 300 characters
\* of the text, the fixed five-entry keyword list and the empty list.
C15_NeverFailsAmended ==
  RxParsed =>
    /\ DOMAIN rx.out = {"description", "keywords", "detectedText"}
    /\ Len(rx.out.keywords) \in 1 .. 5
    /\ Unparseable =>
         /\ rx.out.description = SubSeq(rx.text, 1, IF Len(rx.text) < 300
                                                    THEN Len(rx.text) ELSE 300)
         /\ rx.out.keywords =
              <<<<"i", "m", "a", "g", "e">>, <<"a", "n", "a", "l", "y", "s", "i", "s">>, <<"c", "o", "n", "t", "e", "n", "t">>, <<"v", "i", "s", "u", "a", "l">>, <<"p", "h", "o", "t", "o">>>>
         /\ rx.out.detectedText = <<>>

C15_Witness ==
  /\ rx.pc = "rawParsed"
  /\ Unparseable
  /\ rx.text = <<"%", "$", "#", "@", " ", "g", "a", "r", "b", "a", "g", "e">>
  /\ rx.out.description = rx.text

\* C16: detected-text rule.  When the text after the DETECTED_TEXT: label
\* contains 'no text detected' in any letter case the detected-text list is
\* empty; otherwise it is the comma-separated entries trimmed, without the
\* empty ones and without those that contain 'no text'.  No returned entry
\* contains 'no text'.
C16_DetectedTextRule ==
  /\ rx.pc = "formParsed" =>
       rx.out.detectedText =
         IF \E k \in 1 .. Len(rx.ts) : includes(rx.ts[k], <<"n", "o", " ", "t", "e", "x", "t", " ", "d", "e", "t", "e", "c", "t", "e", "d">>)
         THEN <<>>
         ELSE SelectSeq(NonEmptyTrimmed(rx.ts), LAMBDA e : ~includes(e, <<"n", "o", " ", "t", "e", "x", "t">>))
  /\ RxParsed =>
       \A k \in 1 .. Len(rx.out.detectedText) :
         /\ rx.out.detectedText[k] # <<>>
         /\ ~includes(rx.out.detectedText[k], <<"n", "o", " ", "t", "e", "x", "t">>)

C16_Witness ==
  /\ rx.pc = "formParsed"
  /\ rx.ts = <<<<"N", "o", " ", "T", "e", "x", "t", " ", "h", "e", "r", "e">>, <<" ", "S", "T", "O", "P", " ", "1", "2", " ">>>>
  /\ rx.out.detectedText = <<<<"S", "T", "O", "P", " ", "1", "2">>>>

\* the step is DELETE /api/auth/me answering 200
DeleteMeOk ==
  /\ resp = NoResp
  /\ resp'.handler = "auth"
  /\ resp'.req.route = "DELETE /api/auth/me"
  /\ resp'.status = 200

\* C17: account deletion removes all data.  After DELETE /api/auth/me has
\* answered 200 for a user, the identity-provider account is deleted and of
\* every image the user uploaded no stored object, no image record and no
\* analysis record remains, whatever their status at the time of the call.
C17_DeletionRemovesAll ==
  [][DeleteMeOk =>
       /\ accounts'[resp'.req.claims.sub] = NoAccount
       /\ \A i \in Ids :
            uploader[i] = resp'.req.claims.sub =>
              /\ images'[i] = NoItem
              /\ analysis'[i] = NoItem
              /\ \A key \in objects' : key[2] # i]_vars

\* C18: owner identifier propagation.  The image record an upload writes and
\* the job message it enqueues carry the uploading caller's identifier as
\* owner identifier, and every analysis record written for the job carries
\* that owner identifier and the image record's identifier.
C18_OwnerPropagation ==
  [][/\ (UploadStep /\ resp'.status = 201) =>
          \A id \in resp'.data :
            /\ uploader'[id] # ""
            /\ Owner(images'[id]) = uploader'[id]
            /\ Owner(queue'[id]) = uploader'[id]
     /\ \A i \in Ids :
          (analysis'[i] # analysis[i] /\ analysis'[i] # NoItem) =>
            /\ analysis'[i].imageId = i
            /\ Owner(analysis'[i]) = uploader[i]]_vars

\* the status the claim gives an identity-provider error by its name
StatusByName(name) ==
  CASE name = "UsernameExistsException" -> 409
    [] name = "NotAuthorizedException" -> 401
    [] name = "UserNotFoundException" -> 404
    [] name \in {"CodeMismatchException", "ExpiredCodeException",
                 "InvalidPasswordException", "InvalidParameterException"} -> 400
    [] OTHER -> 500

\* the last response is the auth handler's, to a request during which the
\* identity provider raised an error
AuthProviderError == resp.handler = "auth" /\ resp.fault \in CognitoErrors

\* C19 as stated: an identity-provider error raised on any auth route gets a
\* response whose status depends only on the error's name, every name outside
\* the seven listed giving 500.
C19_ErrorMapping ==
  AuthProviderError =>
    /\ resp.outcome = "resolved"
    /\ resp.status = StatusByName(resp.fault)

\* C19: auth error mapping.  An identity-provider error raised on an auth
\* route gets the status of its name (409, 401, 404, 400, and 500 for every
\* other name), except that PATCH /api/auth/upgrade answers 409 to
\* AliasExistsException too; a duplicate account reported at sign-up
\* (UsernameExistsException) or at upgrade (either name) always gets 409.
C19_ErrorMappingAmended ==
  AuthProviderError =>
    /\ resp.outcome = "resolved"
    /\ resp.status =
         IF /\ resp.req.route = "PATCH /api/auth/upgrade"
            /\ resp.fault = "AliasExistsException"
         THEN 409 ELSE StatusByName(resp.fault)
    /\ (/\ resp.req.route \in {"POST /api/auth/signup", "PATCH /api/auth/upgrade"}
        /\ resp.fault = "UsernameExistsException") => resp.status = 409

C19_Witness ==
  /\ AuthProviderError
  /\ resp.req.route = "PATCH /api/auth/upgrade"
  /\ resp.fault = "AliasExistsException"
  /\ resp.status = 409

\* the step is the auth handler answering, on a route that reads the caller's
\* claims, a request whose context has no claims or no subject
UnauthenticatedStep ==
  /\ resp = NoResp
  /\ resp'.handler = "auth"
  /\ resp'.req.route \in {"GET /api/auth/me", "DELETE /api/auth/me",
                          "PATCH /api/auth/upgrade"}
  /\ resp'.req.claims.sub = ""

\* C20: unauthenticated requests change nothing.  On GET /api/auth/me,
\* DELETE /api/auth/me and PATCH /api/auth/upgrade a request without claims
\* or without a subject gets 401 (never the 400 of the body validation), no
\* call of it fails and the identity provider, the bucket and the tables are
\* as they were.
C20_UnauthenticatedNoEffect ==
  [][UnauthenticatedStep =>
       /\ resp'.outcome = "resolved"
       /\ resp'.status = 401
       /\ resp'.fault = ""
       /\ UNCHANGED <<accounts, objects, images, analysis, queue>>]_vars

C20_Witness ==
  /\ resp.handler = "auth"
  /\ resp.req.route = "PATCH /api/auth/upgrade"
  /\ resp.req.claims = NoClaims
  /\ resp.status = 401
  /\ \E u \in Users : accounts[u].email = "guest"

\* the number of model invocations in the trace of an invocation
ModelCalls(trace) ==
  Cardinality({k \in 1 .. Len(trace) : trace[k] = "model:invoke"})

\* C21: bounded retry and eventual outcome.  Under the redrive policy and
\* fair delivery a job is handed to the handler at most 3 times and each
\* invocation invokes the model at most once; the handler's steps leave the
\* message as it is (only the upload, a delivery and the settling of an
\* invocation change it); and every enqueued job eventually either completes
\* with the image 'analyzed' or rests in the dead-letter queue.
C21_BoundedRetry ==
  /\ [](\A i \in Ids :
          /\ queue[i].rc <= 3
          /\ ModelCalls(inv[i].trace) <= 1
          /\ inv[i].pc = "invoke_model" => queue[i].rc \in 1 .. 3)
  /\ [][\A i \in Ids :
          queue'[i] # queue[i] =>
            \/ queue[i] = NoMsg /\ queue'[i].st = "visible" /\ queue'[i].rc = 0
            \/ /\ queue[i].st = "visible" /\ inv[i].pc = "idle"
               /\ queue'[i] = [queue[i] EXCEPT !.st = "inflight", !.rc = queue[i].rc + 1]
            \/ /\ inv[i].pc = "returned" /\ queue'[i] = NoMsg
            \/ /\ inv[i].pc = "thrown"
               /\ queue'[i] = [queue[i] EXCEPT
                                 !.st = IF queue[i].rc >= 3 THEN "dlq" ELSE "visible"]]_vars
  /\ \A i \in Ids :
       (queue[i].st = "visible") ~>
         \/ queue[i] = NoMsg /\ images[i].status = "analyzed"
         \/ queue[i].st = "dlq"

C21_Witness ==
  \E i \in Ids :
    /\ queue[i].st = "dlq"
    /\ queue[i].rc = 3
    /\ images[i].status = "failed"

OneSucceededOneFailed(i) ==
  \E a, b \in {i, Dup(i)} :
    /\ a # b
    /\ inv[a].pc = "returned"
    /\ inv[b].pc = "thrown"
    /\ "image:failed" \in Range(inv[b].trace)

\* C23: image and analysis status agree after duplicate delivery.  Once two
\* concurrent invocations for the same job message, one succeeding and one
\* failing, have both finished, the image is 'analyzed' exactly when the
\* analysis record is 'completed' and 'failed' exactly when it is 'failed'.
C23_StatusAgreement ==
  \A i \in Ids :
    OneSucceededOneFailed(i) =>
      /\ (images[i].status = "analyzed") <=> (analysis[i].status = "completed")
      /\ (images[i].status = "failed") <=> (analysis[i].status = "failed")

\* C24: a completed result is not lost within an invocation.  When an
\* invocation that wrote the 'completed' analysis record of an image ends,
\* by returning or by throwing, the analysis record is 'completed' with the
\* description, keywords and detected text it wrote.
C24_CompletedNotLost ==
  \A i \in Ids :
    (/\ inv[i].pc \in {"returned", "thrown"}
     /\ "analysis:completed" \in Range(inv[i].trace)) =>
      /\ analysis[i].status = "completed"
      /\ analysis[i].description = inv[i].result.description
      /\ analysis[i].keywords = inv[i].result.keywords
      /\ analysis[i].detectedText = inv[i].result.detectedText

\* the step is DELETE /api/auth/me answering a caller with a subject
DeleteMeStep ==
  /\ resp = NoResp
  /\ resp'.handler = "auth"
  /\ resp'.req.route = "DELETE /api/auth/me"
  /\ resp'.req.claims.sub # ""

UpgradeStep ==
  /\ resp = NoResp
  /\ resp'.handler = "auth"
  /\ resp'.req.route = "PATCH /api/auth/upgrade"
  /\ resp'.req.claims.sub # ""

\* C26: failed upgrade leaves the account unchanged.  PATCH /api/auth/upgrade
\* answers a caller whose email is not a guest address with 400 and without
\* a provider call, and whenever its answer is not 200 the email, names and
\* password of the account are as before the call.
C26_FailedUpgradeUnchanged ==
  [][UpgradeStep =>
       /\ accounts[resp'.req.claims.sub].email # "guest" =>
            (resp'.status = 400 /\ resp'.fault = "")
       /\ resp'.status # 200 => accounts' = accounts]_vars

\* C27: uploads are all-or-nothing.  When the upload handler answers anything
\* but 201 the bucket and the images table are as before the request, and
\* every image record with status 'uploaded' has had its job enqueued.
C27_AllOrNothing ==
  [][/\ (UploadStep /\ resp'.status # 201) => UNCHANGED <<objects, images>>
     /\ UploadStep =>
          \A i \in Ids : images'[i].status = "uploaded" => queue'[i] # NoMsg]_vars

\* the image record and the analysis record after a first-time success of the
\* job with this message and this result
FirstTimeSuccess(i, message, result) ==
  /\ DOMAIN images[i] = {"imageId", "filename", "mimetype", "size", "s3Key", "status"}
  /\ images[i].imageId = i
  /\ images[i].filename = message.filename
  /\ images[i].mimetype = message.mimetype
  /\ images[i].s3Key = message.s3Key
  /\ images[i].status = "analyzed"
  /\ DOMAIN analysis[i] = {"imageId", "filename", "description", "keywords",
                           "detectedText", "status", "analyzedAt"}
  /\ analysis[i].imageId = i
  /\ analysis[i].filename = message.filename
  /\ analysis[i].description = result.description
  /\ analysis[i].keywords = result.keywords
  /\ analysis[i].detectedText = result.detectedText
  /\ analysis[i].status = "completed"

ListedTransitions ==
  {<<"uploaded", "processing">>, <<"failed", "processing">>,
   <<"analyzed", "processing">>, <<"processing", "analyzed">>,
   <<"processing", "failed">>}

\* every status change of an existing image record is one of the transitions
\* allowed; the status of a record is one of the four; 'uploaded' is written
\* by the upload handler alone, into a new record
StatusTransitions(allowed) ==
  \A i \in Ids :
    /\ images'[i] # NoItem =>
         images'[i].status \in {"uploaded", "processing", "analyzed", "failed"}
    /\ (images[i] # NoItem /\ images'[i] # NoItem
        /\ images'[i].status # images[i].status) =>
         <<images[i].status, images'[i].status>> \in allowed
    /\ (images'[i] # images[i] /\ images'[i].status = "uploaded") =>
         (UploadStep /\ images[i] = NoItem)

C30_AnalysisRecordShape ==
  \A i \in Ids :
    analysis[i] # NoItem =>
      /\ analysis[i].status \in {"processing", "completed", "failed"}
      /\ {"imageId", "filename", "description", "keywords", "detectedText"}
           \subseteq DOMAIN analysis[i]
      /\ analysis[i].imageId = i
      /\ analysis[i].status = "failed" => "error" \in DOMAIN analysis[i]

=============================================================================
